---- MODULE Spec2Model ----
(***************************************************************************)
(* Job orchestration of the financial document analyzer:                   *)
(*   main_async.py  the API (submit, status, result, health)               *)
(*   worker.py      process_financial_document, run by the queue's workers *)
(*   main.py        analyze_document and run_financial_crew_with_retry     *)
(*   database.py    the tables analysis_requests and analysis_results      *)
(* The crew (financial_crew.kickoff) is the opaque work unit: per job it   *)
(* fails with a rate-limit error on its first `transient` invocations and  *)
(* from then on either returns or raises another error.                    *)
(***************************************************************************)
EXTENDS Integers, Sequences, FiniteSets, TLC

\* ---------------------------------------------------------------- bounds
\* request ids uuid4() can produce, and the queue's worker processes
Ids == {"r1", "r2"}
Workers == {"w1", "w2"}
\* the crew fails transiently on at most this many leading invocations
MaxTransient == 3
\* how often the queue hands one enqueued job to a worker (SpecRedeliver only)
MaxDeliveries == 2
\* largest max_retries a caller passes to run_financial_crew_with_retry
MaxRetries == 3

\* ------------------------------------------------------------- constants
NULL == "NULL"
\* datetime.utcnow(): a timestamp, abstracted to "not null"
utcnow == "ts"
\* main.py: def run_financial_crew_with_retry(..., max_retries: int = 3)
max_retries_default == 3
\* main.py: wait_time = 15 * (attempt + 1)
base_delay == 15

\* str(e) of the exceptions the work unit and the commit raise
RateLimitError == "rate_limit"
CrewError == "crew error"
IntegrityError == "UNIQUE constraint failed: analysis_results.request_id"
\* job_timeout='30m': the queue raises its timeout exception inside the running job
JobTimeoutException == "Task exceeded maximum timeout value (1800 seconds)"

\* "rate_limit" in error_msg or "rate limit" in error_msg
is_rate_limit(error_msg) == error_msg \in {"rate_limit", "rate limit"}

wait_time_attempt_only(attempt) == base_delay * attempt
wait_time(attempt) == base_delay * (attempt + 1)

\* the query form field: absent or blank, or a question of the caller's
Queries == {"", "which risks?"}
default_query == "Provide a comprehensive financial analysis of this document"
\* if not query or query.strip() == "": query = <default>; query = query.strip()
clean_query(query) == IF query = "" THEN default_query ELSE query

\* the crews a document can meet: `transient` rate-limit failures, then `then`
\* ("timeout": the call runs past the queue's job timeout)
Crews == [transient : 0..MaxTransient, then : {"ok", "error", "timeout"}]
\* /analyze runs the crew in the API process, where no job timeout applies
SyncCrews == {c \in Crews : c.then # "timeout"}

kickoff_timeout_ignored(c, n) ==
    IF n <= c.transient THEN RateLimitError
    ELSE IF c.then \in {"ok", "timeout"} THEN "ok" ELSE CrewError

\* outcome of invocation number n (1-based) of crew c: "ok" or str(e)
kickoff(c, n) ==
    IF n <= c.transient THEN RateLimitError
    ELSE IF c.then = "ok" THEN "ok"
    ELSE IF c.then = "error" THEN CrewError
    ELSE JobTimeoutException

\* the names the task templates interpolate: "{query}" and "{document_content}"
template_variables == {"query", "document_content"}

\* worker.py: inputs = {'query': query, 'file_path': file_path}
worker_inputs == {"query", "file_path"}

\* main.py: inputs = {'query': query, 'file_path': file_path,
\*                    'document_content': document_content}
sync_inputs == {"query", "file_path", "document_content"}

\* ----------------------------------------------------------------- state
VARIABLES
    QUEUE_AVAILABLE,    \* main_async.py module flag, set at import
    analysis_requests,  \* table: request_id -> row (partial function)
    analysis_results,   \* table: request_id -> number of result rows
    files,              \* data/queue_<id>.pdf files that exist
    task_queue,         \* jobs enqueued and not yet taken by a worker
    deliveries,         \* request_id -> times a worker took the job
    sub,                \* request_id -> position of its submit call
    response,           \* request_id -> HTTP status submit answered (0: none yet)
    rejected,           \* status of the last submit refused before an id exists (0: none)
    crew,               \* request_id -> the work unit's behaviour for the job
    invocations,        \* request_id -> kickoff calls made by workers
    claims,             \* request_id -> executions started for it (lines 56-65 run)
    executions,         \* request_id -> executions that ran to their finally
    wk,                 \* worker -> its position in process_financial_document
    syn,                \* the synchronous /analyze call in flight
    reply               \* the last answer of the status or result endpoint

vars == << QUEUE_AVAILABLE, analysis_requests, analysis_results, files,
           task_queue, deliveries, sub, response, rejected, crew,
           invocations, claims, executions, wk, syn, reply >>

Idle == [pc |-> "idle", request_id |-> NULL, request |-> FALSE, e |-> NULL,
         ret |-> NULL, inputs |-> {}]

SynIdle == [pc |-> "idle", max_retries |-> max_retries_default, attempt |-> 0,
            calls |-> 0, sleeps |-> << >>, crew |-> [transient |-> 0, then |-> "ok"],
            file |-> FALSE, status |-> 0, query |-> NULL, inputs |-> {}]

NoReply == [op |-> "none", request_id |-> NULL, body |-> [code |-> 0]]

Init ==
    /\ QUEUE_AVAILABLE \in BOOLEAN
    /\ analysis_requests = [i \in {} |-> NULL]
    /\ analysis_results = [i \in Ids |-> 0]
    /\ files = {}
    /\ task_queue = {}
    /\ deliveries = [i \in Ids |-> 0]
    /\ sub = [i \in Ids |-> "new"]
    /\ response = [i \in Ids |-> 0]
    /\ rejected = 0
    /\ crew = [i \in Ids |-> [transient |-> 0, then |-> "ok"]]
    /\ invocations = [i \in Ids |-> 0]
    /\ claims = [i \in Ids |-> 0]
    /\ executions = [i \in Ids |-> 0]
    /\ wk = [w \in Workers |-> Idle]
    /\ syn = SynIdle
    /\ reply = NoReply

\* ------------------------------------------------- main_async.py: submit
\* AnalysisRequest(request_id=..., status="pending"): the other columns default
pending_row == [status |-> "pending", started_at |-> NULL, completed_at |-> NULL,
                error_message |-> NULL]

api_unchanged_worker ==
    UNCHANGED << invocations, claims, executions, wk, syn, deliveries, reply >>

\* if not QUEUE_AVAILABLE: raise HTTPException(503)
SubmitUnavailable ==
    /\ ~QUEUE_AVAILABLE
    /\ rejected' = 503
    /\ UNCHANGED << QUEUE_AVAILABLE, analysis_requests, analysis_results, files,
                    task_queue, sub, response, crew >>
    /\ api_unchanged_worker

\* if not file.filename.endswith('.pdf'): raise HTTPException(400)
SubmitNotPdf ==
    /\ QUEUE_AVAILABLE
    /\ rejected' = 400
    /\ UNCHANGED << QUEUE_AVAILABLE, analysis_requests, analysis_results, files,
                    task_queue, sub, response, crew >>
    /\ api_unchanged_worker

SubmitSave_row_before_size_check(id) ==
    /\ QUEUE_AVAILABLE
    /\ sub[id] = "new"
    /\ files' = files \cup {id}
    /\ \E file_size \in {0, 1}, c \in Crews :
         IF file_size = 0
         THEN /\ sub' = [sub EXCEPT ![id] = "done"]
              /\ response' = [response EXCEPT ![id] = 400]
              /\ crew' = crew
              /\ analysis_requests' = analysis_requests @@ (id :> pending_row)
         ELSE /\ sub' = [sub EXCEPT ![id] = "saved"]
              /\ response' = response
              /\ crew' = [crew EXCEPT ![id] = c]
              /\ analysis_requests' = analysis_requests
    /\ UNCHANGED << QUEUE_AVAILABLE, analysis_results, task_queue, rejected >>
    /\ api_unchanged_worker

\* request_id = uuid4(); the upload is written to data/queue_<id>.pdf; an empty
\* file raises HTTPException(400), which "except HTTPException: raise" passes on
\* without removing the file
SubmitSave(id) ==
    /\ QUEUE_AVAILABLE
    /\ sub[id] = "new"
    /\ files' = files \cup {id}
    /\ \E file_size \in {0, 1}, c \in Crews :
         IF file_size = 0
         THEN /\ sub' = [sub EXCEPT ![id] = "done"]
              /\ response' = [response EXCEPT ![id] = 400]
              /\ crew' = crew
         ELSE /\ sub' = [sub EXCEPT ![id] = "saved"]
              /\ response' = response
              /\ crew' = [crew EXCEPT ![id] = c]
    /\ UNCHANGED << QUEUE_AVAILABLE, analysis_requests, analysis_results,
                    task_queue, rejected >>
    /\ api_unchanged_worker

SubmitCommit_no_commit(id) ==
    /\ sub[id] = "saved"
    /\ sub' = [sub EXCEPT ![id] = "committed"]
    /\ UNCHANGED << QUEUE_AVAILABLE, analysis_requests, analysis_results, files,
                    task_queue, response, rejected, crew >>
    /\ api_unchanged_worker

\* db.add(analysis_request); db.commit()
SubmitCommit(id) ==
    /\ sub[id] = "saved"
    /\ analysis_requests' = analysis_requests @@ (id :> pending_row)
    /\ sub' = [sub EXCEPT ![id] = "committed"]
    /\ UNCHANGED << QUEUE_AVAILABLE, analysis_results, files, task_queue,
                    response, rejected, crew >>
    /\ api_unchanged_worker

\* task_queue.enqueue(process_financial_document, ...): with the queue
\* unreachable it raises, and "except Exception" removes the file and answers 500
SubmitEnqueue(id) ==
    /\ sub[id] = "committed"
    /\ \E reachable \in BOOLEAN :
         IF reachable
         THEN /\ task_queue' = task_queue \cup {id}
              /\ sub' = [sub EXCEPT ![id] = "enqueued"]
              /\ UNCHANGED << files, response >>
         ELSE /\ files' = files \ {id}
              /\ sub' = [sub EXCEPT ![id] = "done"]
              /\ response' = [response EXCEPT ![id] = 500]
              /\ UNCHANGED task_queue
    /\ UNCHANGED << QUEUE_AVAILABLE, analysis_requests, analysis_results,
                    rejected, crew >>
    /\ api_unchanged_worker

\* return JSONResponse(status_code=202, content={..., "request_id": request_id})
SubmitRespond(id) ==
    /\ sub[id] = "enqueued"
    /\ sub' = [sub EXCEPT ![id] = "done"]
    /\ response' = [response EXCEPT ![id] = 202]
    /\ UNCHANGED << QUEUE_AVAILABLE, analysis_requests, analysis_results, files,
                    task_queue, rejected, crew >>
    /\ api_unchanged_worker

\* ------------------------------------ worker.py: process_financial_document
api_state == << QUEUE_AVAILABLE, sub, response, rejected, crew, syn, reply >>

processing_row_no_started_at(r) == [r EXCEPT !.status = "processing"]
\* request.status = "processing"; request.started_at = datetime.utcnow()
processing_row(r) == [r EXCEPT !.status = "processing", !.started_at = utcnow]

completed_row_no_status(r) == [r EXCEPT !.completed_at = utcnow]
\* request.status = "completed"; request.completed_at = datetime.utcnow()
completed_row(r) == [r EXCEPT !.status = "completed", !.completed_at = utcnow]

failed_row_no_message(r, e) == [r EXCEPT !.status = "failed", !.completed_at = utcnow]
failed_row_no_completed_at(r, e) == [r EXCEPT !.status = "failed", !.error_message = e]
\* request.status = "failed"; request.error_message = str(e);
\* request.completed_at = datetime.utcnow()
failed_row(r, e) == [r EXCEPT !.status = "failed", !.error_message = e,
                              !.completed_at = utcnow]

\* A worker takes a job off the queue and runs lines 53-65: the row is looked up
\* and, if there is one, set to processing whatever its status was; commit.
WorkerClaim(w, id) ==
    /\ wk[w].pc = "idle"
    /\ id \in task_queue
    /\ task_queue' = task_queue \ {id}
    /\ deliveries' = [deliveries EXCEPT ![id] = @ + 1]
    /\ claims' = [claims EXCEPT ![id] = @ + 1]
    /\ LET request == id \in DOMAIN analysis_requests IN
         /\ analysis_requests' =
              IF request
              THEN [analysis_requests EXCEPT ![id] = processing_row(@)]
              ELSE analysis_requests
         /\ wk' = [wk EXCEPT ![w] = [pc |-> "kickoff", request_id |-> id,
                                     request |-> request, e |-> NULL, ret |-> NULL,
                                     inputs |-> {}]]
    /\ UNCHANGED << analysis_results, files, invocations, executions >>
    /\ UNCHANGED api_state

\* result = financial_crew.kickoff(inputs=inputs): returns, or raises into the
\* except clause; there is no retry in the worker
WorkerKickoff(w) ==
    /\ wk[w].pc = "kickoff"
    /\ LET id == wk[w].request_id
           out == kickoff(crew[id], invocations[id] + 1) IN
         /\ invocations' = [invocations EXCEPT ![id] = @ + 1]
         /\ wk' = [wk EXCEPT ![w] =
                     IF out = "ok"
                     THEN [@ EXCEPT !.pc = "store", !.inputs = worker_inputs]
                     ELSE [@ EXCEPT !.pc = "except", !.e = out,
                                    !.inputs = worker_inputs]]
    /\ UNCHANGED << analysis_requests, analysis_results, files, task_queue,
                    deliveries, claims, executions >>
    /\ UNCHANGED api_state

WorkerStore_no_unique(w) ==
    /\ wk[w].pc = "store"
    /\ LET id == wk[w].request_id IN
         /\ analysis_results' = [analysis_results EXCEPT ![id] = @ + 1]
         /\ analysis_requests' =
              IF wk[w].request
              THEN [analysis_requests EXCEPT ![id] = completed_row(@)]
              ELSE analysis_requests
         /\ wk' = [wk EXCEPT ![w].pc = "finally", ![w].ret = "return"]
    /\ UNCHANGED << files, task_queue, deliveries, invocations, claims, executions >>
    /\ UNCHANGED api_state

\* db.add(analysis_result); request.status = "completed"; db.commit(). The result
\* row and the status are one transaction; request_id is unique in
\* analysis_results, so with a row already there the commit raises and the
\* transaction is rolled back.
WorkerStore(w) ==
    /\ wk[w].pc = "store"
    /\ LET id == wk[w].request_id IN
         IF analysis_results[id] = 0
         THEN /\ analysis_results' = [analysis_results EXCEPT ![id] = @ + 1]
              /\ analysis_requests' =
                   IF wk[w].request
                   THEN [analysis_requests EXCEPT ![id] = completed_row(@)]
                   ELSE analysis_requests
              /\ wk' = [wk EXCEPT ![w].pc = "finally", ![w].ret = "return"]
         ELSE /\ wk' = [wk EXCEPT ![w].pc = "except", ![w].e = IntegrityError]
              /\ UNCHANGED << analysis_requests, analysis_results >>
    /\ UNCHANGED << files, task_queue, deliveries, invocations, claims, executions >>
    /\ UNCHANGED api_state

\* except Exception as e: the row, if there is one, is set to failed; raise
WorkerExcept(w) ==
    /\ wk[w].pc = "except"
    /\ LET id == wk[w].request_id IN
         analysis_requests' =
              IF wk[w].request
              THEN [analysis_requests EXCEPT ![id] = failed_row(@, wk[w].e)]
              ELSE analysis_requests
    /\ wk' = [wk EXCEPT ![w].pc = "finally", ![w].ret = "raise"]
    /\ UNCHANGED << analysis_results, files, task_queue, deliveries, invocations,
                    claims, executions >>
    /\ UNCHANGED api_state

WorkerFinally_keeps_file(w) ==
    /\ wk[w].pc = "finally"
    /\ executions' = [executions EXCEPT ![wk[w].request_id] = @ + 1]
    /\ wk' = [wk EXCEPT ![w] = Idle]
    /\ UNCHANGED << analysis_requests, analysis_results, files, task_queue,
                    deliveries, invocations, claims >>
    /\ UNCHANGED api_state

WorkerFinally_removes_all_files(w) ==
    /\ wk[w].pc = "finally"
    /\ files' = {}
    /\ executions' = [executions EXCEPT ![wk[w].request_id] = @ + 1]
    /\ wk' = [wk EXCEPT ![w] = Idle]
    /\ UNCHANGED << analysis_requests, analysis_results, task_queue, deliveries,
                    invocations, claims >>
    /\ UNCHANGED api_state

\* finally: if os.path.exists(file_path): os.remove(file_path); db.close()
WorkerFinally(w) ==
    /\ wk[w].pc = "finally"
    /\ files' = files \ {wk[w].request_id}
    /\ executions' = [executions EXCEPT ![wk[w].request_id] = @ + 1]
    /\ wk' = [wk EXCEPT ![w] = Idle]
    /\ UNCHANGED << analysis_requests, analysis_results, task_queue, deliveries,
                    invocations, claims >>
    /\ UNCHANGED api_state

\* what a commit raises when the database cannot take the write
OperationalError == "database is locked"

\* db.commit() of line 101 raises for a reason other than a duplicate (database
\* locked or unreachable): the result row and the completed status are rolled
\* back together and the except clause is entered.
WorkerStoreFails(w) ==
    /\ wk[w].pc = "store"
    /\ wk' = [wk EXCEPT ![w].pc = "except", ![w].e = OperationalError]
    /\ UNCHANGED << analysis_requests, analysis_results, files, task_queue,
                    deliveries, invocations, claims, executions >>
    /\ UNCHANGED api_state

\* db.commit() of line 120, inside the except clause, raises too: the failed
\* status is not stored, and the commit's exception leaves the function through
\* the finally clause.
WorkerExceptFails(w) ==
    /\ wk[w].pc = "except"
    /\ wk[w].request
    /\ wk' = [wk EXCEPT ![w].pc = "finally", ![w].ret = "raise",
                        ![w].e = OperationalError]
    /\ UNCHANGED << analysis_requests, analysis_results, files, task_queue,
                    deliveries, invocations, claims, executions >>
    /\ UNCHANGED api_state

Crash_runs_handler(w) ==
    /\ wk[w].pc # "idle"
    /\ analysis_requests' =
         IF wk[w].request
         THEN [analysis_requests EXCEPT ![wk[w].request_id] = failed_row(@, CrewError)]
         ELSE analysis_requests
    /\ wk' = [wk EXCEPT ![w] = Idle]
    /\ UNCHANGED << analysis_results, files, task_queue, deliveries, invocations,
                    claims, executions >>
    /\ UNCHANGED api_state

\* The worker process dies inside process_financial_document (killed, out of
\* memory, power loss): neither the except nor the finally clause runs, nothing
\* is committed, and the worker that is started again begins idle.
Crash(w) ==
    /\ wk[w].pc # "idle"
    /\ wk' = [wk EXCEPT ![w] = Idle]
    /\ UNCHANGED << analysis_requests, analysis_results, files, task_queue,
                    deliveries, invocations, claims, executions >>
    /\ UNCHANGED api_state

\* The queue hands a job it has already handed out to a worker again (at-least-once
\* delivery: a requeue of a job from the queue's registries).
Redeliver(id) ==
    /\ deliveries[id] >= 1
    /\ deliveries[id] < MaxDeliveries
    /\ id \notin task_queue
    /\ task_queue' = task_queue \cup {id}
    /\ UNCHANGED << analysis_requests, analysis_results, files, deliveries,
                    invocations, claims, executions, wk >>
    /\ UNCHANGED api_state

\* The queue holds a job for a request id that has no row in analysis_requests
\* (the row was deleted, or the job was enqueued without one): the lookup of
\* lines 58-60 will return None.
DeliverWithoutRow(id) ==
    /\ sub[id] = "new"
    /\ sub' = [sub EXCEPT ![id] = "foreign"]
    /\ task_queue' = task_queue \cup {id}
    /\ \E c \in Crews : crew' = [crew EXCEPT ![id] = c]
    /\ UNCHANGED << QUEUE_AVAILABLE, analysis_requests, analysis_results, files,
                    deliveries, response, rejected, invocations, claims,
                    executions, wk, syn, reply >>

\* ----------------------- main.py: analyze_document (the synchronous path)
async_state == << QUEUE_AVAILABLE, analysis_requests, analysis_results, files,
                  task_queue, deliveries, sub, response, rejected, crew,
                  invocations, claims, executions, wk, reply >>

\* if not file.filename.endswith('.pdf'): raise HTTPException(400)
SyncNotPdf ==
    /\ syn.pc = "idle"
    /\ syn' = [SynIdle EXCEPT !.status = 400]
    /\ UNCHANGED async_state

\* The upload is saved; an empty file raises HTTPException(400) inside the try,
\* so the finally clause still runs; otherwise run_financial_crew_with_retry is
\* called with the default max_retries.
SyncStart ==
    /\ syn.pc = "idle"
    /\ \E file_size \in {0, 1}, c \in SyncCrews, query \in Queries :
         syn' = IF file_size = 0
                THEN [SynIdle EXCEPT !.pc = "finally", !.file = TRUE, !.status = 400]
                ELSE [SynIdle EXCEPT !.pc = "attempt", !.file = TRUE, !.crew = c,
                                     !.query = clean_query(query)]
    /\ UNCHANGED async_state

SyncAttempt_rewraps_429 ==
    /\ syn.pc = "attempt"
    /\ IF syn.attempt >= syn.max_retries
       THEN syn' = [syn EXCEPT !.pc = "finally", !.status = 500]
       ELSE LET out == kickoff(syn.crew, syn.calls + 1) IN
            syn' = IF out = "ok"
                   THEN [syn EXCEPT !.calls = @ + 1, !.pc = "finally", !.status = 200]
                   ELSE IF is_rate_limit(out) /\ syn.attempt < syn.max_retries - 1
                   THEN [syn EXCEPT !.calls = @ + 1, !.pc = "sleep"]
                   ELSE [syn EXCEPT !.calls = @ + 1, !.pc = "finally", !.status = 500]
    /\ UNCHANGED async_state

SyncAttempt_retries_forever ==
    /\ syn.pc = "attempt"
    /\ LET out == kickoff(syn.crew, syn.calls + 1) IN
         syn' = IF out = "ok"
                THEN [syn EXCEPT !.calls = @ + 1, !.pc = "finally", !.status = 200]
                ELSE IF is_rate_limit(out)
                THEN [syn EXCEPT !.calls = @ + 1, !.pc = "sleep"]
                ELSE [syn EXCEPT !.calls = @ + 1, !.pc = "finally", !.status = 500]
    /\ UNCHANGED async_state

\* One pass of "for attempt in range(max_retries)": kickoff returns (200), raises a
\* rate-limit error (sleep and continue while attempt < max_retries - 1, else
\* HTTPException 429) or raises another error (re-raised; analyze_document turns
\* it into 500). With the range exhausted the function raises HTTPException 500.
SyncAttempt ==
    /\ syn.pc = "attempt"
    /\ IF syn.attempt >= syn.max_retries
       THEN syn' = [syn EXCEPT !.pc = "finally", !.status = 500]
       ELSE LET out == kickoff(syn.crew, syn.calls + 1)
                called == [syn EXCEPT !.calls = @ + 1, !.inputs = sync_inputs]
            IN
            syn' = IF out = "ok"
                   THEN [called EXCEPT !.pc = "finally", !.status = 200]
                   ELSE IF is_rate_limit(out)
                   THEN IF syn.attempt < syn.max_retries - 1
                        THEN [called EXCEPT !.pc = "sleep"]
                        ELSE [called EXCEPT !.pc = "finally", !.status = 429]
                   ELSE [called EXCEPT !.pc = "finally", !.status = 500]
    /\ UNCHANGED async_state

\* wait_time = 15 * (attempt + 1); time.sleep(wait_time); continue
SyncSleep ==
    /\ syn.pc = "sleep"
    /\ syn' = [syn EXCEPT !.sleeps = Append(@, wait_time(syn.attempt)),
                          !.attempt = @ + 1, !.pc = "attempt"]
    /\ UNCHANGED async_state

\* finally: if os.path.exists(file_path): os.remove(file_path)
SyncFinally ==
    /\ syn.pc = "finally"
    /\ syn' = [syn EXCEPT !.pc = "idle", !.file = FALSE]
    /\ UNCHANGED async_state

\* ------------------------------- main_async.py: the status and result reads
read_unchanged ==
    UNCHANGED << QUEUE_AVAILABLE, analysis_requests, analysis_results, files,
                 task_queue, deliveries, sub, response, rejected, crew,
                 invocations, claims, executions, wk, syn >>

Absent == "absent"

get_analysis_status_not_found(request_id) ==
    [code |-> 404, status |-> Absent, started_at |-> Absent,
     completed_at |-> Absent, error |-> Absent, result_endpoint |-> Absent]

get_analysis_status_error_always(request_id) ==
    IF request_id \notin DOMAIN analysis_requests
    THEN [code |-> 404, status |-> Absent, started_at |-> Absent,
          completed_at |-> Absent, error |-> Absent, result_endpoint |-> Absent]
    ELSE LET request == analysis_requests[request_id] IN
         [code |-> 200, status |-> request.status,
          started_at |-> request.started_at,
          completed_at |-> request.completed_at,
          error |-> request.error_message,
          result_endpoint |-> IF request.status = "completed" THEN request_id
                              ELSE Absent]

\* get_analysis_status: 404 without a row; else the row's status and timestamps,
\* "error" only if failed, "result_endpoint" only if completed
get_analysis_status(request_id) ==
    IF request_id \notin DOMAIN analysis_requests
    THEN [code |-> 404, status |-> Absent, started_at |-> Absent,
          completed_at |-> Absent, error |-> Absent, result_endpoint |-> Absent]
    ELSE LET request == analysis_requests[request_id] IN
         [code |-> 200, status |-> request.status,
          started_at |-> request.started_at,
          completed_at |-> request.completed_at,
          error |-> IF request.status = "failed" THEN request.error_message
                    ELSE Absent,
          result_endpoint |-> IF request.status = "completed" THEN request_id
                              ELSE Absent]

get_analysis_result_no_failed_check(request_id) ==
    IF request_id \notin DOMAIN analysis_requests
    THEN [code |-> 404, detail |-> "Request not found", analysis |-> Absent,
          completed_at |-> Absent]
    ELSE LET request == analysis_requests[request_id] IN
         IF request.status = "pending"
         THEN [code |-> 202, detail |-> "Analysis is pending", analysis |-> Absent,
               completed_at |-> Absent]
         ELSE IF request.status = "processing"
         THEN [code |-> 202, detail |-> "Analysis is in progress",
               analysis |-> Absent, completed_at |-> Absent]
         ELSE IF analysis_results[request_id] = 0
         THEN [code |-> 404, detail |-> "Result not found", analysis |-> Absent,
               completed_at |-> Absent]
         ELSE [code |-> 200, detail |-> Absent, analysis |-> request_id,
               completed_at |-> request.completed_at]

\* get_analysis_result: 404 without a row; HTTPException 202 while pending or
\* processing; 500 with the stored message if failed; else the result row is
\* looked up: 404 "Result not found" without one, or the analysis
get_analysis_result(request_id) ==
    IF request_id \notin DOMAIN analysis_requests
    THEN [code |-> 404, detail |-> "Request not found", analysis |-> Absent,
          completed_at |-> Absent]
    ELSE LET request == analysis_requests[request_id] IN
         IF request.status = "pending"
         THEN [code |-> 202, detail |-> "Analysis is pending", analysis |-> Absent,
               completed_at |-> Absent]
         ELSE IF request.status = "processing"
         THEN [code |-> 202, detail |-> "Analysis is in progress",
               analysis |-> Absent, completed_at |-> Absent]
         ELSE IF request.status = "failed"
         THEN [code |-> 500, detail |-> request.error_message, analysis |-> Absent,
               completed_at |-> Absent]
         ELSE IF analysis_results[request_id] = 0
         THEN [code |-> 404, detail |-> "Result not found", analysis |-> Absent,
               completed_at |-> Absent]
         ELSE [code |-> 200, detail |-> Absent, analysis |-> request_id,
               completed_at |-> request.completed_at]

GetStatus(id) ==
    /\ reply' = [op |-> "status", request_id |-> id, body |-> get_analysis_status(id)]
    /\ read_unchanged

GetResult_consumes_result(id) ==
    /\ reply' = [op |-> "result", request_id |-> id, body |-> get_analysis_result(id)]
    /\ analysis_results' = [analysis_results EXCEPT ![id] = 0]
    /\ UNCHANGED << QUEUE_AVAILABLE, analysis_requests, files, task_queue,
                    deliveries, sub, response, rejected, crew, invocations,
                    claims, executions, wk, syn >>

GetResult(id) ==
    /\ reply' = [op |-> "result", request_id |-> id, body |-> get_analysis_result(id)]
    /\ read_unchanged

\* --------------------------------------------------------- specifications
Next ==
    \/ SubmitUnavailable
    \/ SubmitNotPdf
    \/ \E id \in Ids : SubmitSave(id)
    \/ \E id \in Ids : SubmitCommit(id)
    \/ \E id \in Ids : SubmitEnqueue(id)
    \/ \E id \in Ids : SubmitRespond(id)
    \/ \E w \in Workers, id \in Ids : WorkerClaim(w, id)
    \/ \E w \in Workers : WorkerKickoff(w)
    \/ \E w \in Workers : WorkerStore(w)
    \/ \E w \in Workers : WorkerExcept(w)
    \/ \E w \in Workers : WorkerFinally(w)

\* The asynchronous path as the program enqueues: every job is handed to a
\* worker once.
Spec == Init /\ [][Next]_vars

\* The scheduling the program runs under: the RQ worker loop (worker.work())
\* keeps taking jobs while the queue holds one and runs each job function to
\* its end, and a request handler that has started runs to its response.
WorkerRuns(w) ==
    WorkerKickoff(w) \/ WorkerStore(w) \/ WorkerExcept(w) \/ WorkerFinally(w)

HandlerRuns(id) == SubmitCommit(id) \/ SubmitEnqueue(id) \/ SubmitRespond(id)

Fairness ==
    /\ \A w \in Workers : WF_vars(\E id \in Ids : WorkerClaim(w, id))
    /\ \A w \in Workers : WF_vars(WorkerRuns(w))
    /\ \A id \in Ids : WF_vars(HandlerRuns(id))

SpecLive == Spec /\ Fairness

\* The asynchronous path under at-least-once delivery of the queue's jobs.
NextRedeliver == Next \/ \E id \in Ids : Redeliver(id)

SpecRedeliver == Init /\ [][NextRedeliver]_vars

\* The asynchronous path with workers also handed jobs that have no row.
NextOrphan == Next \/ \E id \in Ids : DeliverWithoutRow(id)

SpecOrphan == Init /\ [][NextOrphan]_vars

\* The asynchronous path with its callers polling the status and result endpoints.
\* GET /health of main_async.py: "background_processing": QUEUE_AVAILABLE
health_check == [code |-> 200, background_processing |-> QUEUE_AVAILABLE]

HealthCheck ==
    /\ reply' = [op |-> "health", request_id |-> NULL, body |-> health_check]
    /\ read_unchanged

NextApi ==
    \/ Next
    \/ \E id \in Ids : GetStatus(id)
    \/ \E id \in Ids : GetResult(id)

SpecApi == Init /\ [][NextApi]_vars

\* The asynchronous path with worker processes that may die.
NextCrash == Next \/ \E w \in Workers : Crash(w)

SpecCrash == Init /\ [][NextCrash]_vars

\* The asynchronous path with a database whose commits may fail.
NextDbFault ==
    \/ Next
    \/ \E w \in Workers : WorkerStoreFails(w)
    \/ \E w \in Workers : WorkerExceptFails(w)

SpecDbFault == Init /\ [][NextDbFault]_vars

\* The asynchronous path with its health endpoint.
NextHealth == Next \/ HealthCheck

SpecHealth == Init /\ [][NextHealth]_vars

\* The synchronous path: /analyze, which touches neither table.
NextSync ==
    \/ SyncNotPdf
    \/ SyncStart
    \/ SyncAttempt
    \/ SyncSleep
    \/ SyncFinally

SpecSync == Init /\ [][NextSync]_vars

\* run_financial_crew_with_retry(query, file_path, max_retries) called with a
\* max_retries of the caller's choice
RetryCall ==
    /\ syn.pc = "idle"
    /\ \E m \in 0..MaxRetries, c \in SyncCrews :
         syn' = [SynIdle EXCEPT !.pc = "attempt", !.file = TRUE, !.crew = c,
                                !.max_retries = m, !.query = default_query]
    /\ UNCHANGED async_state

NextRetry ==
    \/ RetryCall
    \/ SyncAttempt
    \/ SyncSleep
    \/ SyncFinally

SpecRetry == Init /\ [][NextRetry]_vars

\* a call that has started keeps running: each invocation of the work unit
\* and each time.sleep ends
SpecRetryLive == SpecRetry /\ WF_vars(SyncAttempt \/ SyncSleep)

\* main.py is served by one uvicorn event loop (uvicorn.run(app), no workers):
\* analyze_document is "async def" and calls run_financial_crew_with_retry
\* directly, so kickoff and time.sleep(wait_time) run on the loop itself and no
\* other handler is scheduled until analyze_document returns.
event_loop_free == syn.pc = "idle"

\* GET /health of main.py: async def health_check, returns the fixed body
SyncHealthCheck ==
    /\ event_loop_free
    /\ reply' = [op |-> "health", request_id |-> NULL, body |-> [code |-> 200]]
    /\ read_unchanged

NextLoop ==
    \/ NextSync
    \/ SyncHealthCheck

SpecLoop == Init /\ [][NextLoop]_vars

\* ------------------------------------------------------------ properties
Jobs == DOMAIN analysis_requests
status(id) == analysis_requests[id].status

\* the status changes of the state machine: pending -> processing ->
\* completed | failed, and no change out of completed or failed
StatusStep(old, new) ==
    \/ old = new
    \/ old = "pending" /\ new = "processing"
    \/ old = "processing" /\ new \in {"completed", "failed"}

\* C1: for every job and every sequence of submissions and worker executions,
\* the same job delivered more than once included, the persisted status only
\* moves pending -> processing -> completed or failed, and a completed or
\* failed job keeps its status.
C1_StatusMonotonic ==
    [][\A id \in Jobs :
          /\ id \in DOMAIN analysis_requests'
          /\ StatusStep(status(id), analysis_requests'[id].status)]_vars

\* C2: a job is completed if and only if a result row exists for its request
\* id; no result row belongs to a missing, pending, processing or failed job.
C2_CompletedIffResult ==
    \A id \in Ids :
        (id \in Jobs /\ status(id) = "completed") <=> analysis_results[id] >= 1

C2_Witness ==
    \E id \in Jobs : status(id) = "completed" /\ analysis_results[id] = 1

\* C3: at most one execution per job: of two deliveries of the same request id
\* at most one claims the job and invokes the work unit, and no two workers
\* are active on one job.
C3_OneExecutionPerJob ==
    \A id \in Ids :
        /\ claims[id] <= 1
        /\ Cardinality({w \in Workers : wk[w].request_id = id}) <= 1

TimestampsMatchStatus ==
    \A id \in Jobs :
        /\ analysis_requests[id].started_at # NULL
             <=> status(id) \in {"processing", "completed", "failed"}
        /\ analysis_requests[id].completed_at # NULL
             <=> status(id) \in {"completed", "failed"}

TimestampsStay ==
    \A id \in Jobs :
        /\ analysis_requests[id].started_at # NULL
             => analysis_requests'[id].started_at # NULL
        /\ analysis_requests[id].completed_at # NULL
             => analysis_requests'[id].completed_at # NULL

\* C4: started_at is set exactly when the status is processing, completed or
\* failed, completed_at exactly when it is completed or failed, and a timestamp
\* once set is never null again.
C4_Timestamps == []TimestampsMatchStatus /\ [][TimestampsStay]_vars

C4_Witness ==
    \E id, other \in Jobs :
        /\ status(id) = "processing" /\ analysis_requests[id].started_at # NULL
        /\ status(other) = "failed" /\ analysis_requests[other].completed_at # NULL

\* C5: error_message is non-null exactly when the job's status is failed.
C5_ErrorMessageIffFailed ==
    \A id \in Jobs : analysis_requests[id].error_message # NULL <=> status(id) = "failed"

C5_Witness ==
    \E id, other \in Jobs :
        /\ status(id) = "failed" /\ analysis_requests[id].error_message = CrewError
        /\ status(other) = "completed" /\ analysis_requests[other].error_message = NULL

\* an execution of the job by a worker has run to its end
Executed(id) == id \in Jobs /\ executions[id] >= 1

\* C6: a work unit that fails transiently k < 3 times and then succeeds is
\* invoked k + 1 times by the worker's execution, no failure is persisted, and
\* the job ends completed.
C6_TransientThenSuccess ==
    \A id \in Ids :
        (/\ Executed(id)
         /\ crew[id].then = "ok"
         /\ crew[id].transient < 3)
        => /\ invocations[id] = crew[id].transient + 1
           /\ status(id) = "completed"

\* C7: a work unit that fails transiently on every invocation is attempted
\* exactly 3 times and the job then ends failed with a stored error message.
C7_TransientAlways ==
    \A id \in Ids :
        (Executed(id) /\ crew[id].transient >= 3)
        => /\ invocations[id] = 3
           /\ status(id) = "failed"
           /\ analysis_requests[id].error_message # NULL

\* C8: a work unit that raises a terminal error on its first invocation is
\* invoked exactly once (the worker goes from the failed kickoff straight to the
\* failed status, with no delay step) and the job ends failed with completed_at
\* and error_message set.
C8_TerminalFailsAtOnce ==
    \A id \in Ids :
        /\ (Executed(id) /\ crew[id].transient = 0 /\ crew[id].then = "error")
           => /\ invocations[id] = 1
              /\ status(id) = "failed"
              /\ analysis_requests[id].completed_at # NULL
              /\ analysis_requests[id].error_message = CrewError
        /\ \A w \in Workers :
             (wk[w].request_id = id /\ wk[w].e = CrewError /\ wk[w].pc = "finally")
             => invocations[id] = 1 /\ status(id) = "failed"

C8_Witness ==
    \E id \in Ids :
        /\ Executed(id) /\ crew[id].transient = 0 /\ crew[id].then = "error"
        /\ status(id) = "failed" /\ invocations[id] = 1

\* the retry function has ended (the response status is known)
SyncEnded == syn.status \in {200, 429, 500} /\ syn.pc \in {"finally", "idle"}

Enqueued(id) == id \in task_queue \/ deliveries[id] >= 1

SubmitOrder ==
    \A id \in Ids :
        /\ (sub[id] \in {"committed", "enqueued"} \/ Enqueued(id) \/ response[id] = 202)
           => id \in Jobs
        /\ response[id] = 202 => Enqueued(id)
        /\ invocations[id] >= 1 => claims[id] >= 1

SubmitNeverInvokes == sub' # sub => invocations' = invocations

\* C10: submit answers with a job id only after the pending row was committed;
\* the commit precedes the enqueue and the response, and no step of submit
\* invokes the work unit.
C10_CommitBeforeEnqueueAndResponse == []SubmitOrder /\ [][SubmitNeverInvokes]_vars

C10_Witness ==
    \E id \in Jobs :
        response[id] = 202 /\ status(id) = "pending" /\ invocations[id] = 0

\* submit answers 202 for id in this step
SubmitReturns(id) == response[id] # 202 /\ response'[id] = 202

SubmitFailedUnqueued(id) ==
    sub[id] = "done" /\ ~Enqueued(id) /\ response[id] # 400

\* C12: with the execution substrate unavailable at submit (by the flag, or
\* found only when the enqueue call fails) submit answers 503 and no job record
\* of that submission exists afterwards; no job stays pending without ever
\* having been enqueued.
C12_UnavailableLeavesNoRecord ==
    /\ ~QUEUE_AVAILABLE => Jobs = {} /\ rejected \in {0, 503}
    /\ \A id \in Ids :
         SubmitFailedUnqueued(id) => response[id] = 503 /\ id \notin Jobs

RejectedHasNoState ==
    \A id \in Ids :
        response[id] = 400
        => /\ id \notin Jobs
           /\ ~Enqueued(id)
           /\ analysis_results[id] = 0
           /\ get_analysis_status(id).code = 404

RejectionStep ==
    (rejected' # rejected \/ \E id \in Ids : response[id] # 400 /\ response'[id] = 400)
    => UNCHANGED << analysis_requests, analysis_results, task_queue >>

\* C13: a submission with an empty payload or a filename not ending in .pdf is
\* answered 400 and creates no state: no job record, nothing enqueued, and
\* get_status for the id generated for the attempt answers not found.
C13_RejectedCreatesNoState == []RejectedHasNoState /\ [][RejectionStep]_vars

C13_Witness ==
    \E id \in Ids :
        /\ response[id] = 400 /\ rejected = 400
        /\ reply.op = "status" /\ reply.request_id = id /\ reply.body.code = 404

\* C14: a worker that starts an attempt for a request id without a job record
\* aborts it: the work unit is not invoked, no result row is written and no
\* error is raised.
C14_NoRowAborts ==
    /\ \A id \in Ids :
         id \notin Jobs => invocations[id] = 0 /\ analysis_results[id] = 0
    /\ \A w \in Workers :
         (wk[w].pc # "idle" /\ ~wk[w].request) => wk[w].ret # "raise"

\* the job's work unit runs past the queue's job timeout on its first invocation
TimesOut(id) == crew[id].transient = 0 /\ crew[id].then = "timeout"

\* C15: a work unit that exceeds the execution timeout makes the job a terminal
\* failure: it ends failed with completed_at and error_message set, it is not
\* run again, and no result row is written.
C15_TimeoutIsTerminal ==
    \A id \in Ids :
        /\ (Executed(id) /\ TimesOut(id))
           => /\ status(id) = "failed"
              /\ analysis_requests[id].completed_at # NULL
              /\ analysis_requests[id].error_message = JobTimeoutException
              /\ invocations[id] = 1
              /\ deliveries[id] = 1 /\ id \notin task_queue
              /\ analysis_results[id] = 0
        /\ (id \in Jobs /\ TimesOut(id)) => status(id) # "completed"

C15_Witness ==
    \E id \in Ids :
        /\ Executed(id) /\ TimesOut(id)
        /\ status(id) = "failed"
        /\ analysis_requests[id].error_message = JobTimeoutException

ResultByStatus(id) ==
    LET r == get_analysis_result(id) IN
    /\ id \notin Jobs
       => r.code = 404 /\ r.detail = "Request not found" /\ r.analysis = Absent
    /\ id \in Jobs =>
         /\ status(id) \in {"pending", "processing"}
            => r.code = 202 /\ r.analysis = Absent /\ r.completed_at = Absent
         /\ status(id) = "failed"
            => /\ r.code = 500 /\ r.analysis = Absent
               /\ r.detail = analysis_requests[id].error_message
               /\ r.detail # NULL
         /\ status(id) = "completed"
            => /\ r.code = 200 /\ r.analysis = id
               /\ r.completed_at = analysis_requests[id].completed_at
               /\ r.completed_at # NULL
         /\ status(id) \in {"pending", "processing", "failed", "completed"}

\* C16: get_result's outcome follows the job's status: unknown id -> 404;
\* pending or processing -> 202 without result data; failed -> 500 carrying the
\* stored error_message; completed -> the stored result with completed_at; no
\* other outcome is returned.
C16_ResultByStatus ==
    /\ \A id \in Ids : ResultByStatus(id)
    /\ reply.op = "result"
       => /\ reply.body.code \in {404, 202, 500, 200}
          /\ reply.body.detail # "Result not found"
          /\ reply.body.code = 200 => status(reply.request_id) = "completed"
          /\ reply.body.code = 500 => status(reply.request_id) = "failed"

C16_Witness ==
    \E id, other \in Jobs :
        /\ status(id) = "completed" /\ status(other) = "failed"
        /\ reply.op = "result" /\ reply.request_id = id /\ reply.body.code = 200
        /\ get_analysis_result(other).code = 500

\* a worker executing the job of id takes a step
WorkerStepOn(id) ==
    \E w \in Workers :
        wk'[w] # wk[w] /\ (wk[w].request_id = id \/ wk'[w].request_id = id)

ReadsAndOwnership ==
    /\ reply' # reply
       => UNCHANGED << analysis_requests, analysis_results, files, task_queue >>
    /\ \A id \in Jobs :
         /\ id \in DOMAIN analysis_requests'
         /\ analysis_requests'[id] # analysis_requests[id] => WorkerStepOn(id)
    /\ \A id \in Ids :
         analysis_results'[id] # analysis_results[id] => WorkerStepOn(id)
    /\ sub' # sub
       => /\ analysis_results' = analysis_results
          /\ \A id \in Jobs : analysis_requests'[id] = analysis_requests[id]

\* C17: get_status and get_result leave both stores unchanged; once a job record
\* exists only the worker changes its status, timestamps and error message or
\* creates its result row; submit never modifies an existing record.
C17_ReadsArePureWorkerOwnsRows == [][ReadsAndOwnership]_vars

C17_Witness ==
    \E id \in Jobs :
        /\ reply.op = "status" /\ reply.request_id = id
        /\ reply.body.status = "completed" /\ reply.body.result_endpoint = id
        /\ status(id) = "completed" /\ analysis_results[id] = 1

FileGoneAfterExecution ==
    \A id \in Ids :
        /\ executions[id] >= 1 => id \notin files
        /\ executions[id] <= 1
        /\ \A w \in Workers : wk[w].request_id = id => id \in files

FileRemovedOnce ==
    \A id \in Ids :
        /\ executions'[id] # executions[id]
           => id \in files /\ id \notin files' /\ executions'[id] = executions[id] + 1
        /\ (id \in files /\ id \notin files')
           => executions'[id] = executions[id] + 1 \/ response'[id] = 500

StepOn(id) ==
    \/ sub'[id] # sub[id]
    \/ WorkerStepOn(id)
    \/ reply' # reply /\ reply'.request_id = id

OwnStateUnchanged(id) ==
    /\ id \in DOMAIN analysis_requests' <=> id \in DOMAIN analysis_requests
    /\ id \in DOMAIN analysis_requests => analysis_requests'[id] = analysis_requests[id]
    /\ analysis_results'[id] = analysis_results[id]
    /\ id \in files' <=> id \in files
    /\ get_analysis_status(id)' = get_analysis_status(id)
    /\ get_analysis_result(id)' = get_analysis_result(id)

IsolationStep ==
    /\ \A a, b \in Ids : StepOn(a) /\ StepOn(b) => a = b
    /\ \A id \in Ids : ~StepOn(id) => OwnStateUnchanged(id)

\* C19: every operation on one job (submit, claim, completion, failure, file
\* cleanup, status and result reads) leaves the record, the result row, the
\* payload file and the read replies of every other job unchanged.
C19_JobsAreIsolated == [][IsolationStep]_vars

C19_Witness ==
    \E a, b \in Jobs :
        /\ a # b
        /\ status(a) = "completed" /\ executions[a] = 1 /\ a \notin files
        /\ status(b) = "processing" /\ b \in files
        /\ \E w \in Workers : wk[w].request_id = b
        /\ reply.request_id = a /\ reply.body.code = 200

\* C20: while a job waits in its retry backoff delay, another request handled
\* by the same process can make progress before the delay ends.
C20_BackoffDoesNotBlock == syn.pc = "sleep" => ENABLED SyncHealthCheck

\* the synchronous call has returned with an outcome of the work unit
SyncReturned == syn.pc = "idle" /\ syn.calls >= 1

\* C21: a document processed through /analyze runs the same job state machine:
\* when the call returns there is a job record, completed with a result row
\* after a success, failed with an error message after a failure.
C21_SyncRunsStateMachine ==
    SyncReturned
    => \E id \in DOMAIN analysis_requests :
          \/ /\ syn.status = 200
             /\ analysis_requests[id].status = "completed"
             /\ analysis_results[id] = 1
          \/ /\ syn.status # 200
             /\ analysis_requests[id].status = "failed"
             /\ analysis_requests[id].error_message # NULL

Ended(id) ==
    id \in DOMAIN analysis_requests /\ status(id) \in {"completed", "failed"}

\* C22: with workers scheduled fairly and never crashing, and every invocation
\* of the work unit returning, raising or timing out, every job record that is
\* created eventually reaches completed or failed.
C22_EveryJobEnds == \A id \in Ids : (id \in DOMAIN analysis_requests) ~> Ended(id)

AtMostOneResult == \A id \in Ids : analysis_results[id] <= 1

ResultWithCompletion ==
    \A id \in Jobs :
        LET created == analysis_results'[id] # analysis_results[id]
            completes == status(id) # "completed" /\ status(id)' = "completed"
        IN /\ created => analysis_results[id] = 0 /\ analysis_results'[id] = 1
           /\ created <=> completes

\* C23: there is at most one result row per job id, and the row is created
\* once, in the commit that moves the job to completed, also when the job is
\* executed more than once.
C23_OneResultPerJob == []AtMostOneResult /\ [][ResultWithCompletion]_vars

C23_Witness ==
    \E id \in Jobs : executions[id] = 2 /\ invocations[id] = 2 /\ analysis_results[id] = 1

StatusProjection(id, r) ==
    /\ id \notin Jobs => r.code = 404 /\ r.status = Absent
    /\ id \in Jobs =>
         /\ r.code = 200
         /\ r.status = status(id)
         /\ r.started_at = analysis_requests[id].started_at
         /\ r.completed_at = analysis_requests[id].completed_at
         /\ r.error # Absent <=> status(id) = "failed"
         /\ r.error # Absent => r.error = analysis_requests[id].error_message
         /\ r.result_endpoint # Absent <=> status(id) = "completed"
         /\ r.result_endpoint # Absent => r.result_endpoint = id

StatusReadStep ==
    (reply' # reply /\ reply'.op = "status")
    => StatusProjection(reply'.request_id, reply'.body)

\* C24: get_status answers 404 for an unknown id and otherwise the stored
\* status and timestamps of the job, with the error field exactly when the
\* status is failed and the result endpoint exactly when it is completed.
C24_StatusProjection ==
    [](\A id \in Ids : StatusProjection(id, get_analysis_status(id)))
    /\ [][StatusReadStep]_vars

C24_Witness ==
    \E a \in Jobs, c \in Ids :
        /\ c \notin Jobs /\ get_analysis_status(c).code = 404
        /\ status(a) = "failed"
        /\ reply.op = "status" /\ reply.request_id = a
        /\ reply.body.status = "failed" /\ reply.body.error = CrewError
        /\ reply.body.result_endpoint = Absent

\* C25: the health endpoint reports background processing as available exactly
\* when a valid asynchronous submission made at that moment can be enqueued, and
\* as unavailable exactly when such a submission would be refused with 503.
C25_HealthTellsEnqueueable ==
    /\ ~health_check.background_processing <=> ENABLED SubmitUnavailable
    /\ health_check.background_processing
       => \A id \in Ids : sub[id] = "done" /\ response[id] # 400 => Enqueued(id)

\* the execution of id was started and no worker runs it any more, although it
\* never reached the end of the function
Crashed(id) ==
    /\ claims[id] >= 1 /\ executions[id] = 0
    /\ \A w \in Workers : wk[w].request_id # id

CrashedWhileProcessing(id) ==
    id \in Jobs /\ Crashed(id) /\ status(id) = "processing"

CrashedStaysProcessing ==
    \A id \in Ids :
        /\ (\E w \in Workers : Crash(w) /\ wk[w].request_id = id
                                /\ id \in Jobs /\ status(id) = "processing")
           => CrashedWhileProcessing(id)'
        /\ CrashedWhileProcessing(id)
           => CrashedWhileProcessing(id)' /\ analysis_requests'[id] = analysis_requests[id]

\* C26: a job whose worker process dies while the job is processing is left
\* processing with completed_at and error_message null, and no operation of the
\* program moves it out of processing afterwards.
C26_CrashLeavesProcessing ==
    [](\A id \in Ids :
          CrashedWhileProcessing(id)
          => /\ analysis_requests[id].completed_at = NULL
             /\ analysis_requests[id].error_message = NULL
             /\ analysis_requests[id].started_at # NULL
             /\ id \notin task_queue)
    /\ [][CrashedStaysProcessing]_vars

C26_Witness ==
    \E id, other \in Jobs :
        /\ CrashedWhileProcessing(id) /\ invocations[id] = 1
        /\ status(other) = "completed" /\ executions[other] = 1
        /\ \A w \in Workers : wk[w].pc = "idle"

\* C27: when process_financial_document raises after the job record was found,
\* also for a failure while committing the result and the completed status, the
\* record ends failed with the exception text and without a result row; the
\* function returns normally only for a job committed as completed; a raised
\* exception never leaves the job in processing.
C27_RaiseEndsFailed ==
    \A w \in Workers :
        (wk[w].pc = "finally" /\ wk[w].request)
        => LET id == wk[w].request_id IN
           /\ wk[w].ret = "raise"
              => /\ status(id) = "failed"
                 /\ analysis_requests[id].error_message = wk[w].e
                 /\ analysis_results[id] = 0
           /\ wk[w].ret = "return"
              => status(id) = "completed" /\ analysis_results[id] = 1

Max(a, b) == IF a >= b THEN a ELSE b

RetryBounds ==
    /\ syn.calls <= syn.max_retries
    /\ Len(syn.sleeps) <= Max(0, syn.max_retries - 1)
    /\ syn.pc = "finally"
       => /\ syn.status \in {200, 429, 500}
          /\ syn.status = 200 <=> (syn.calls >= 1 /\ kickoff(syn.crew, syn.calls) = "ok")
          /\ syn.max_retries = 0 => syn.calls = 0 /\ syn.status = 500

\* C28: for any max_retries >= 0 and a work unit whose invocations terminate,
\* run_financial_crew_with_retry ends after at most max_retries invocations and
\* at most max_retries - 1 delays, by returning a success result or by raising,
\* never without a result; with max_retries = 0 it raises 500 without invoking.
C28_RetryTerminates ==
    /\ []RetryBounds
    /\ (syn.pc = "attempt") ~> (syn.pc = "finally")

C28_Witness ==
    /\ syn.pc = "finally" /\ syn.max_retries = 2 /\ syn.calls = 2
    /\ Len(syn.sleeps) = 1 /\ syn.status = 429

\* C29: on the synchronous path success on some attempt gives 200, a rate-limit
\* failure on all 3 attempts gives 429, unchanged by the caller, and another
\* failure on any attempt gives 500 with no further attempt.
C29_SyncHttpOutcome ==
    (SyncEnded /\ syn.max_retries = max_retries_default)
    => /\ (syn.crew.transient < 3 /\ syn.crew.then = "ok")
          => syn.status = 200 /\ syn.calls = syn.crew.transient + 1
       /\ syn.crew.transient >= 3
          => syn.status = 429 /\ syn.calls = 3
       /\ (syn.crew.transient < 3 /\ syn.crew.then = "error")
          => syn.status = 500 /\ syn.calls = syn.crew.transient + 1
       /\ syn.status = 200 => kickoff(syn.crew, syn.calls) = "ok"
       /\ syn.status = 429 => is_rate_limit(kickoff(syn.crew, syn.calls))
       /\ syn.status = 500 => kickoff(syn.crew, syn.calls) = CrewError

C29_Witness ==
    /\ SyncEnded /\ syn.status = 429 /\ syn.calls = 3 /\ syn.sleeps = << 15, 30 >>
    /\ syn.max_retries = max_retries_default

\* C30: the payload file saved by a submission is gone when submit returns 400
\* or 500, and otherwise a job that will delete it is queued or running: no
\* saved file outlives its submission without such a job.
C30_NoFileLeftBehind ==
    \A id \in Ids :
        /\ (sub[id] = "done" /\ response[id] \in {400, 500}) => id \notin files
        /\ (sub[id] = "done" /\ id \in files)
           => /\ response[id] = 202
              /\ id \in task_queue \/ \E w \in Workers : wk[w].request_id = id

\* C31: the worker invokes the work unit with the same inputs as the
\* synchronous path (query, file path, extracted document content), so every
\* input the task templates require is supplied.
C31_SameInputsOnBothPaths ==
    \A w \in Workers :
        wk[w].inputs # {}
        => wk[w].inputs = sync_inputs /\ template_variables \subseteq wk[w].inputs

====
